---------------------------- MODULE Spec2Model ----------------------------
(***************************************************************************)
(* reolinkapi mixins (alarm, ptz, record, zoom): every public method builds *)
(* one command descriptor, wraps it in a list and hands it to the shared    *)
(* dispatcher self._execute_command(command_name, body).                    *)
(*                                                                          *)
(* The state is what is observable at the dispatcher boundary: the last     *)
(* invocation (method, arguments, the dispatcher calls it made, what the    *)
(* dispatcher answered, what the method gave back to its caller), counters  *)
(* of invocations and of dispatcher calls, and per channel whether the last *)
(* PtzCtrl command sent started a continuous motion.                        *)
(***************************************************************************)
EXTENDS Integers, Sequences, FiniteSets, TLC

VARIABLES last, ninvocations, ndispatched, moving

vars == <<last, ninvocations, ndispatched, moving>>

(* Every key the mixins put into a dict and every field of the records of  *)
(* this module, named once. TLC keeps the fields of a record in the order   *)
(* of their first occurrence in the module; each constructor below lists    *)
(* its fields in this order.                                                *)
RecordFields ==
    [method |-> "invocation", args |-> "invocation", reply |-> "invocation",
     calls |-> "invocation", outcome |-> "invocation",
     command_name |-> "call", body |-> "call",
     kind |-> "reply", value |-> "reply",
     cmd |-> "descriptor", action |-> "descriptor", param |-> "descriptor",
     Alarm |-> "param", PtzPreset |-> "param", Enc |-> "param", Rec |-> "param",
     ZoomFocus |-> "param", AutoFocus |-> "param",
     audio |-> "Enc", channel |-> "param", type |-> "Alarm", op |-> "param",
     speed |-> "param", index |-> "args", preset |-> "args",
     enable |-> "PtzPreset", id |-> "param", name |-> "PtzPreset",
     position |-> "args", pos |-> "ZoomFocus", disable |-> "AutoFocus",
     mainStream |-> "Enc", subStream |-> "Enc",
     bitRate |-> "stream", frameRate |-> "stream", profile |-> "stream",
     size |-> "stream",
     main_bit_rate |-> "args", main_frame_rate |-> "args", main_profile |-> "args",
     main_size |-> "args", sub_bit_rate |-> "args", sub_frame_rate |-> "args",
     sub_profile |-> "args", sub_size |-> "args"]

(* ------------------------------ bounds --------------------------------- *)
MaxChannel == 1
MaxPreset == 2
MaxCalls == 3

Channels == 0..MaxChannel
Presets == 1..MaxPreset
Speeds == {25, 60}
Positions == {0, 16}
PresetNames == {"pos1", "pos2"}
Enables == {0, 1}
Audios == {0, 1}
BitRates == {4096, 8192}
FrameRates == {8}
SubBitRates == {160}
SubFrameRates == {7}
Profiles == {"High"}
MainSizes == {"2560*1440"}
SubSizes == {"640*480"}

(* Python's None for the optional index, and a supplied index i *)
None == << >>
Some(i) == << i >>
Indexes == {None} \cup {Some(i) : i \in Presets}

(* What the dispatcher does with one call: it returns a mapping or raises *)
Replies == [kind : {"return"}, value : {"rspA", "rspB"}]
             \cup [kind : {"raise"}, value : {"error"}]
NoReply == [kind |-> "none", value |-> "none"]

(* ------------------------ the dispatcher boundary ---------------------- *)
(* self._execute_command(command_name, body): one call recorded, and the   *)
(* dispatcher's reply as the value of the call expression                  *)
ExecuteCommand(command_name, body, reply) ==
    [calls |-> << [command_name |-> command_name, body |-> body] >>,
     outcome |-> reply]

(* ------------------------------ alarm.py ------------------------------- *)
(* faulty variant: the channel is left out of the Alarm object *)
get_alarm_motion_no_channel(channel, reply) ==
    LET body == << [cmd |-> "GetAlarm", action |-> 1,
                    param |-> [Alarm |-> [type |-> "md"]]] >>
    IN  ExecuteCommand("GetAlarm", body, reply)

get_alarm_motion(channel, reply) ==
    LET body == << [cmd |-> "GetAlarm", action |-> 1,
                    param |-> [Alarm |-> [channel |-> channel, type |-> "md"]]] >>
    IN  ExecuteCommand("GetAlarm", body, reply)

(* ------------------------------- ptz.py -------------------------------- *)
get_ptz_check_state(channel, reply) ==
    LET body == << [cmd |-> "GetPtzCheckState", action |-> 1,
                    param |-> [channel |-> channel]] >>
    IN  ExecuteCommand("GetPtzCheckState", body, reply)

(* faulty variant: the query is sent with action 0 *)
get_ptz_presets_action0(channel, reply) ==
    LET body == << [cmd |-> "GetPtzPreset", action |-> 0,
                    param |-> [channel |-> channel]] >>
    IN  ExecuteCommand("GetPtzPreset", body, reply)

get_ptz_presets(channel, reply) ==
    LET body == << [cmd |-> "GetPtzPreset", action |-> 1,
                    param |-> [channel |-> channel]] >>
    IN  ExecuteCommand("GetPtzPreset", body, reply)

perform_calibration(channel, reply) ==
    LET data == << [cmd |-> "PtzCheck", action |-> 0,
                    param |-> [channel |-> channel]] >>
    IN  ExecuteCommand("PtzCheck", data, reply)

(* faulty variant: the command is sent a second time *)
_send_operation_retry(operation, speed, index, channel, reply) ==
    LET param0 == [channel |-> channel, op |-> operation, speed |-> speed]
        param == IF index # None THEN param0 @@ ("id" :> index[1]) ELSE param0
        data == << [cmd |-> "PtzCtrl", action |-> 0, param |-> param] >>
        first == ExecuteCommand("PtzCtrl", data, reply)
        second == ExecuteCommand("PtzCtrl", data, reply)
    IN  [calls |-> first.calls \o second.calls, outcome |-> second.outcome]

(* faulty variant: the id key is set whether or not an index was given *)
_send_operation_always_id(operation, speed, index, channel, reply) ==
    LET param0 == [channel |-> channel, op |-> operation, speed |-> speed]
        param == param0 @@ ("id" :> IF index # None THEN index[1] ELSE 0)
        data == << [cmd |-> "PtzCtrl", action |-> 0, param |-> param] >>
    IN  ExecuteCommand("PtzCtrl", data, reply)

_send_operation(operation, speed, index, channel, reply) ==
    LET param0 == [channel |-> channel, op |-> operation, speed |-> speed]
        param == IF index # None THEN param0 @@ ("id" :> index[1]) ELSE param0
        data == << [cmd |-> "PtzCtrl", action |-> 0, param |-> param] >>
    IN  ExecuteCommand("PtzCtrl", data, reply)

_send_noparm_operation(operation, channel, reply) ==
    LET data == << [cmd |-> "PtzCtrl", action |-> 0,
                    param |-> [channel |-> channel, op |-> operation]] >>
    IN  ExecuteCommand("PtzCtrl", data, reply)

_send_set_preset(enable, preset, name, channel, reply) ==
    LET data == << [cmd |-> "SetPtzPreset", action |-> 0,
                    param |-> [PtzPreset |-> [channel |-> channel, enable |-> enable,
                                              id |-> preset, name |-> name]]] >>
    IN  ExecuteCommand("PtzCtrl", data, reply)

go_to_preset(speed, index, channel, reply) ==
    _send_operation("ToPos", speed, index, channel, reply)

add_preset(preset, name, channel, reply) ==
    _send_set_preset(1, preset, name, channel, reply)

(* faulty variant: the name is not forwarded, the default is sent *)
remove_preset_default_name(preset, name, channel, reply) ==
    _send_set_preset(0, preset, "pos1", channel, reply)

remove_preset(preset, name, channel, reply) ==
    _send_set_preset(0, preset, name, channel, reply)

move_right(speed, channel, reply) ==
    _send_operation("Right", speed, None, channel, reply)

move_right_up(speed, channel, reply) ==
    _send_operation("RightUp", speed, None, channel, reply)

move_right_down(speed, channel, reply) ==
    _send_operation("RightDown", speed, None, channel, reply)

move_left(speed, channel, reply) ==
    _send_operation("Left", speed, None, channel, reply)

move_left_up(speed, channel, reply) ==
    _send_operation("LeftUp", speed, None, channel, reply)

move_left_down(speed, channel, reply) ==
    _send_operation("LeftDown", speed, None, channel, reply)

move_up(speed, channel, reply) ==
    _send_operation("Up", speed, None, channel, reply)

move_down(speed, channel, reply) ==
    _send_operation("Down", speed, None, channel, reply)

stop_ptz(channel, reply) ==
    _send_noparm_operation("Stop", channel, reply)

auto_movement(speed, channel, reply) ==
    _send_operation("Auto", speed, None, channel, reply)

(* ------------------------------ record.py ------------------------------ *)
get_recording_encoding(channel, reply) ==
    LET body == << [cmd |-> "GetEnc", action |-> 1,
                    param |-> [channel |-> channel]] >>
    IN  ExecuteCommand("GetEnc", body, reply)

get_recording_advanced(channel, reply) ==
    LET body == << [cmd |-> "GetRec", action |-> 1,
                    param |-> [channel |-> channel]] >>
    IN  ExecuteCommand("GetRec", body, reply)

get_recording_advanced_v20(channel, reply) ==
    LET body == << [cmd |-> "GetRecV20", action |-> 0,
                    param |-> [channel |-> channel]] >>
    IN  ExecuteCommand("GetRecV20", body, reply)

set_recording_advanced_v20_enable(enable, reply) ==
    LET body == << [cmd |-> "SetRecV20", action |-> 0,
                    param |-> [Rec |-> [enable |-> enable]]] >>
    IN  ExecuteCommand("SetRecV20", body, reply)

(* faulty variant: a failure of the dispatcher is caught and an empty       *)
(* mapping returned                                                        *)
set_recording_encoding_swallow(audio, main_bit_rate, main_frame_rate, main_profile, main_size, sub_bit_rate, sub_frame_rate, sub_profile, sub_size, channel, reply) ==
    LET body == << [cmd |-> "SetEnc", action |-> 0,
                    param |-> [Enc |-> [
                        audio |-> audio,
                        channel |-> channel,
                        mainStream |-> [bitRate |-> main_bit_rate,
                                        frameRate |-> main_frame_rate,
                                        profile |-> main_profile,
                                        size |-> main_size],
                        subStream |-> [bitRate |-> sub_bit_rate,
                                       frameRate |-> sub_frame_rate,
                                       profile |-> sub_profile,
                                       size |-> sub_size]]]] >>
        exec == ExecuteCommand("SetEnc", body, reply)
    IN  IF exec.outcome.kind = "raise"
        THEN [calls |-> exec.calls, outcome |-> [kind |-> "return", value |-> "empty"]]
        ELSE exec

set_recording_encoding(audio, main_bit_rate, main_frame_rate, main_profile, main_size, sub_bit_rate, sub_frame_rate, sub_profile, sub_size, channel, reply) ==
    LET body == << [cmd |-> "SetEnc", action |-> 0,
                    param |-> [Enc |-> [
                        audio |-> audio,
                        channel |-> channel,
                        mainStream |-> [bitRate |-> main_bit_rate,
                                        frameRate |-> main_frame_rate,
                                        profile |-> main_profile,
                                        size |-> main_size],
                        subStream |-> [bitRate |-> sub_bit_rate,
                                       frameRate |-> sub_frame_rate,
                                       profile |-> sub_profile,
                                       size |-> sub_size]]]] >>
    IN  ExecuteCommand("SetEnc", body, reply)

(* ------------------------------- zoom.py ------------------------------- *)
(* faulty variant: the motion is stopped by the client right after it is   *)
(* started                                                                 *)
_start_operation_auto_stop(operation, speed, channel, reply) ==
    LET data == << [cmd |-> "PtzCtrl", action |-> 0,
                    param |-> [channel |-> channel, op |-> operation,
                               speed |-> speed]] >>
        stop == << [cmd |-> "PtzCtrl", action |-> 0,
                    param |-> [channel |-> channel, op |-> "Stop"]] >>
        started == ExecuteCommand("PtzCtrl", data, reply)
        stopped == ExecuteCommand("PtzCtrl", stop, reply)
    IN  [calls |-> started.calls \o stopped.calls, outcome |-> started.outcome]

_start_operation(operation, speed, channel, reply) ==
    LET data == << [cmd |-> "PtzCtrl", action |-> 0,
                    param |-> [channel |-> channel, op |-> operation,
                               speed |-> speed]] >>
    IN  ExecuteCommand("PtzCtrl", data, reply)

_stop_zooming_or_focusing(channel, reply) ==
    LET data == << [cmd |-> "PtzCtrl", action |-> 0,
                    param |-> [channel |-> channel, op |-> "Stop"]] >>
    IN  ExecuteCommand("PtzCtrl", data, reply)

get_zoom_focus(channel, reply) ==
    LET data == << [cmd |-> "GetZoomFocus", action |-> 0,
                    param |-> [channel |-> channel]] >>
    IN  ExecuteCommand("GetZoomFocus", data, reply)

(* faulty variant: the position is sent under the key "position" *)
start_zoom_pos_position_key(position, channel, reply) ==
    LET data == << [cmd |-> "StartZoomFocus", action |-> 0,
                    param |-> [ZoomFocus |-> [channel |-> channel, op |-> "ZoomPos",
                                              position |-> position]]] >>
    IN  ExecuteCommand("StartZoomFocus", data, reply)

start_zoom_pos(position, channel, reply) ==
    LET data == << [cmd |-> "StartZoomFocus", action |-> 0,
                    param |-> [ZoomFocus |-> [channel |-> channel, op |-> "ZoomPos",
                                              pos |-> position]]] >>
    IN  ExecuteCommand("StartZoomFocus", data, reply)

start_focus_pos(position, channel, reply) ==
    LET data == << [cmd |-> "StartZoomFocus", action |-> 0,
                    param |-> [ZoomFocus |-> [channel |-> channel, op |-> "FocusPos",
                                              pos |-> position]]] >>
    IN  ExecuteCommand("StartZoomFocus", data, reply)

get_auto_focus(channel, reply) ==
    LET data == << [cmd |-> "GetAutoFocus", action |-> 0,
                    param |-> [channel |-> channel]] >>
    IN  ExecuteCommand("GetAutoFocus", data, reply)

(* faulty variant: the flag is inverted *)
set_auto_focus_inverted(disable, channel, reply) ==
    LET data == << [cmd |-> "SetAutoFocus", action |-> 0,
                    param |-> [AutoFocus |-> [channel |-> channel,
                                              disable |-> IF disable THEN 0 ELSE 1]]] >>
    IN  ExecuteCommand("SetAutoFocus", data, reply)

set_auto_focus(disable, channel, reply) ==
    LET data == << [cmd |-> "SetAutoFocus", action |-> 0,
                    param |-> [AutoFocus |-> [channel |-> channel,
                                              disable |-> IF disable THEN 1 ELSE 0]]] >>
    IN  ExecuteCommand("SetAutoFocus", data, reply)

start_zooming_in(speed, channel, reply) ==
    _start_operation("ZoomInc", speed, channel, reply)

start_zooming_out(speed, channel, reply) ==
    _start_operation("ZoomDec", speed, channel, reply)

stop_zooming(channel, reply) ==
    _stop_zooming_or_focusing(channel, reply)

start_focusing_in(speed, channel, reply) ==
    _start_operation("FocusInc", speed, channel, reply)

start_focusing_out(speed, channel, reply) ==
    _start_operation("FocusDec", speed, channel, reply)

stop_focusing(channel, reply) ==
    _stop_zooming_or_focusing(channel, reply)

(* --------------------------- the state machine ------------------------- *)
(* The PtzCtrl ops that start a motion lasting until a Stop is sent        *)
LevelOps == {"Right", "RightUp", "RightDown", "Left", "LeftUp", "LeftDown",
             "Up", "Down", "Auto", "ZoomInc", "ZoomDec", "FocusInc", "FocusDec"}

(* The effect of one dispatched descriptor on the per-channel motion       *)
AfterDescriptor(m, d) ==
    IF d.cmd = "PtzCtrl" /\ d.param.channel \in DOMAIN m
    THEN IF d.param.op \in LevelOps THEN [m EXCEPT ![d.param.channel] = TRUE]
         ELSE IF d.param.op = "Stop" THEN [m EXCEPT ![d.param.channel] = FALSE]
         ELSE m
    ELSE m

RECURSIVE AfterBody(_, _)
AfterBody(m, body) ==
    IF body = << >> THEN m
    ELSE AfterBody(AfterDescriptor(m, Head(body)), Tail(body))

RECURSIVE AfterCalls(_, _)
AfterCalls(m, calls) ==
    IF calls = << >> THEN m
    ELSE AfterCalls(AfterBody(m, Head(calls).body), Tail(calls))

Init ==
    /\ last = [method |-> "none", args |-> << >>, reply |-> NoReply,
               calls |-> << >>, outcome |-> NoReply]
    /\ ninvocations = 0
    /\ ndispatched = 0
    /\ moving = [c \in Channels |-> FALSE]

(* One synchronous invocation of a public method by the caller: exec is    *)
(* what the method did (its dispatcher calls) and gave back               *)
Invoke(method, args, reply, exec) ==
    /\ ninvocations < MaxCalls
    /\ last' = [method |-> method, args |-> args, reply |-> reply,
                calls |-> exec.calls, outcome |-> exec.outcome]
    /\ ninvocations' = ninvocations + 1
    /\ ndispatched' = ndispatched + Len(exec.calls)
    /\ moving' = AfterCalls(moving, exec.calls)

Call_get_alarm_motion ==
    \E channel \in Channels, reply \in Replies :
        /\ Invoke("get_alarm_motion",
               [channel |-> channel], reply,
               get_alarm_motion(channel, reply))

Call_get_ptz_check_state ==
    \E channel \in Channels, reply \in Replies :
        /\ Invoke("get_ptz_check_state",
               [channel |-> channel], reply,
               get_ptz_check_state(channel, reply))

Call_get_ptz_presets ==
    \E channel \in Channels, reply \in Replies :
        /\ Invoke("get_ptz_presets",
               [channel |-> channel], reply,
               get_ptz_presets(channel, reply))

Call_perform_calibration ==
    \E channel \in Channels, reply \in Replies :
        /\ Invoke("perform_calibration",
               [channel |-> channel], reply,
               perform_calibration(channel, reply))

Call_go_to_preset ==
    \E speed \in Speeds, index \in Indexes, channel \in Channels, reply \in Replies :
        /\ Invoke("go_to_preset",
               [channel |-> channel, speed |-> speed, index |-> index], reply,
               go_to_preset(speed, index, channel, reply))

Call_add_preset ==
    \E preset \in Presets, name \in PresetNames, channel \in Channels, reply \in Replies :
        /\ Invoke("add_preset",
               [channel |-> channel, preset |-> preset, name |-> name], reply,
               add_preset(preset, name, channel, reply))

Call_remove_preset ==
    \E preset \in Presets, name \in PresetNames, channel \in Channels, reply \in Replies :
        /\ Invoke("remove_preset",
               [channel |-> channel, preset |-> preset, name |-> name], reply,
               remove_preset(preset, name, channel, reply))

Call_move_right ==
    \E speed \in Speeds, channel \in Channels, reply \in Replies :
        /\ Invoke("move_right",
               [channel |-> channel, speed |-> speed], reply,
               move_right(speed, channel, reply))

Call_move_right_up ==
    \E speed \in Speeds, channel \in Channels, reply \in Replies :
        /\ Invoke("move_right_up",
               [channel |-> channel, speed |-> speed], reply,
               move_right_up(speed, channel, reply))

Call_move_right_down ==
    \E speed \in Speeds, channel \in Channels, reply \in Replies :
        /\ Invoke("move_right_down",
               [channel |-> channel, speed |-> speed], reply,
               move_right_down(speed, channel, reply))

Call_move_left ==
    \E speed \in Speeds, channel \in Channels, reply \in Replies :
        /\ Invoke("move_left",
               [channel |-> channel, speed |-> speed], reply,
               move_left(speed, channel, reply))

Call_move_left_up ==
    \E speed \in Speeds, channel \in Channels, reply \in Replies :
        /\ Invoke("move_left_up",
               [channel |-> channel, speed |-> speed], reply,
               move_left_up(speed, channel, reply))

Call_move_left_down ==
    \E speed \in Speeds, channel \in Channels, reply \in Replies :
        /\ Invoke("move_left_down",
               [channel |-> channel, speed |-> speed], reply,
               move_left_down(speed, channel, reply))

Call_move_up ==
    \E speed \in Speeds, channel \in Channels, reply \in Replies :
        /\ Invoke("move_up",
               [channel |-> channel, speed |-> speed], reply,
               move_up(speed, channel, reply))

Call_move_down ==
    \E speed \in Speeds, channel \in Channels, reply \in Replies :
        /\ Invoke("move_down",
               [channel |-> channel, speed |-> speed], reply,
               move_down(speed, channel, reply))

Call_stop_ptz ==
    \E channel \in Channels, reply \in Replies :
        /\ Invoke("stop_ptz",
               [channel |-> channel], reply,
               stop_ptz(channel, reply))

Call_auto_movement ==
    \E speed \in Speeds, channel \in Channels, reply \in Replies :
        /\ Invoke("auto_movement",
               [channel |-> channel, speed |-> speed], reply,
               auto_movement(speed, channel, reply))

Call_get_recording_encoding ==
    \E channel \in Channels, reply \in Replies :
        /\ Invoke("get_recording_encoding",
               [channel |-> channel], reply,
               get_recording_encoding(channel, reply))

Call_get_recording_advanced ==
    \E channel \in Channels, reply \in Replies :
        /\ Invoke("get_recording_advanced",
               [channel |-> channel], reply,
               get_recording_advanced(channel, reply))

Call_get_recording_advanced_v20 ==
    \E channel \in Channels, reply \in Replies :
        /\ Invoke("get_recording_advanced_v20",
               [channel |-> channel], reply,
               get_recording_advanced_v20(channel, reply))

Call_set_recording_advanced_v20_enable ==
    \E enable \in Enables, reply \in Replies :
        /\ Invoke("set_recording_advanced_v20_enable",
               [enable |-> enable], reply,
               set_recording_advanced_v20_enable(enable, reply))

Call_set_recording_encoding ==
    \E audio \in Audios, main_bit_rate \in BitRates, main_frame_rate \in FrameRates,
       main_profile \in Profiles, main_size \in MainSizes, sub_bit_rate \in SubBitRates,
       sub_frame_rate \in SubFrameRates, sub_profile \in Profiles, sub_size \in SubSizes,
       channel \in Channels, reply \in Replies :
        /\ Invoke("set_recording_encoding",
               [audio |-> audio, channel |-> channel,
                main_bit_rate |-> main_bit_rate,
                main_frame_rate |-> main_frame_rate, main_profile |-> main_profile,
                main_size |-> main_size, sub_bit_rate |-> sub_bit_rate,
                sub_frame_rate |-> sub_frame_rate, sub_profile |-> sub_profile,
                sub_size |-> sub_size], reply,
               set_recording_encoding(audio, main_bit_rate, main_frame_rate, main_profile,
                                       main_size, sub_bit_rate, sub_frame_rate,
                                       sub_profile, sub_size, channel, reply))

Call_get_zoom_focus ==
    \E channel \in Channels, reply \in Replies :
        /\ Invoke("get_zoom_focus",
               [channel |-> channel], reply,
               get_zoom_focus(channel, reply))

Call_start_zoom_pos ==
    \E position \in Positions, channel \in Channels, reply \in Replies :
        /\ Invoke("start_zoom_pos",
               [channel |-> channel, position |-> position], reply,
               start_zoom_pos(position, channel, reply))

Call_start_focus_pos ==
    \E position \in Positions, channel \in Channels, reply \in Replies :
        /\ Invoke("start_focus_pos",
               [channel |-> channel, position |-> position], reply,
               start_focus_pos(position, channel, reply))

Call_get_auto_focus ==
    \E channel \in Channels, reply \in Replies :
        /\ Invoke("get_auto_focus",
               [channel |-> channel], reply,
               get_auto_focus(channel, reply))

Call_set_auto_focus ==
    \E disable \in BOOLEAN, channel \in Channels, reply \in Replies :
        /\ Invoke("set_auto_focus",
               [channel |-> channel, disable |-> disable], reply,
               set_auto_focus(disable, channel, reply))

Call_start_zooming_in ==
    \E speed \in Speeds, channel \in Channels, reply \in Replies :
        /\ Invoke("start_zooming_in",
               [channel |-> channel, speed |-> speed], reply,
               start_zooming_in(speed, channel, reply))

Call_start_zooming_out ==
    \E speed \in Speeds, channel \in Channels, reply \in Replies :
        /\ Invoke("start_zooming_out",
               [channel |-> channel, speed |-> speed], reply,
               start_zooming_out(speed, channel, reply))

Call_stop_zooming ==
    \E channel \in Channels, reply \in Replies :
        /\ Invoke("stop_zooming",
               [channel |-> channel], reply,
               stop_zooming(channel, reply))

Call_start_focusing_in ==
    \E speed \in Speeds, channel \in Channels, reply \in Replies :
        /\ Invoke("start_focusing_in",
               [channel |-> channel, speed |-> speed], reply,
               start_focusing_in(speed, channel, reply))

Call_start_focusing_out ==
    \E speed \in Speeds, channel \in Channels, reply \in Replies :
        /\ Invoke("start_focusing_out",
               [channel |-> channel, speed |-> speed], reply,
               start_focusing_out(speed, channel, reply))

Call_stop_focusing ==
    \E channel \in Channels, reply \in Replies :
        /\ Invoke("stop_focusing",
               [channel |-> channel], reply,
               stop_focusing(channel, reply))

Next ==
    \/ Call_get_alarm_motion
    \/ Call_get_ptz_check_state
    \/ Call_get_ptz_presets
    \/ Call_perform_calibration
    \/ Call_go_to_preset
    \/ Call_add_preset
    \/ Call_remove_preset
    \/ Call_move_right
    \/ Call_move_right_up
    \/ Call_move_right_down
    \/ Call_move_left
    \/ Call_move_left_up
    \/ Call_move_left_down
    \/ Call_move_up
    \/ Call_move_down
    \/ Call_stop_ptz
    \/ Call_auto_movement
    \/ Call_get_recording_encoding
    \/ Call_get_recording_advanced
    \/ Call_get_recording_advanced_v20
    \/ Call_set_recording_advanced_v20_enable
    \/ Call_set_recording_encoding
    \/ Call_get_zoom_focus
    \/ Call_start_zoom_pos
    \/ Call_start_focus_pos
    \/ Call_get_auto_focus
    \/ Call_set_auto_focus
    \/ Call_start_zooming_in
    \/ Call_start_zooming_out
    \/ Call_stop_zooming
    \/ Call_start_focusing_in
    \/ Call_start_focusing_out
    \/ Call_stop_focusing

Spec == Init /\ [][Next]_vars

(* ------------------------- vocabulary of the claims -------------------- *)
Invoked == last.method # "none"

(* P holds of every descriptor of every dispatcher call of invocation l *)
AllSent(l, P(_)) ==
    \A i \in 1..Len(l.calls) :
        \A j \in 1..Len(l.calls[i].body) : P(l.calls[i].body[j])

(* The invocation made exactly one dispatcher call with a one-element body *)
OneCall(l) == Len(l.calls) = 1 /\ Len(l.calls[1].body) = 1

GetMethods == {"get_alarm_motion", "get_ptz_check_state", "get_ptz_presets",
               "get_recording_encoding", "get_recording_advanced",
               "get_recording_advanced_v20", "get_zoom_focus", "get_auto_focus"}
MoveMethods == {"move_right", "move_right_up", "move_right_down", "move_left",
                "move_left_up", "move_left_down", "move_up", "move_down",
                "auto_movement"}
StartMethods == MoveMethods \cup {"start_zooming_in", "start_zooming_out",
                                  "start_focusing_in", "start_focusing_out"}
StopMethods == {"stop_ptz", "stop_zooming", "stop_focusing"}

Flat(d, keys) == DOMAIN d.param = keys
Nested(d, k, keys) == DOMAIN d.param = {k} /\ DOMAIN d.param[k] = keys

(* C1: over any sequence of invocations the dispatcher has been called      *)
(* exactly once per invocation, and the last invocation made one call whose *)
(* body is a sequence of length 1.                                          *)
C1_ExactlyOneDispatch ==
    /\ ndispatched = ninvocations
    /\ Invoked => OneCall(last)

C1_Witness ==
    /\ ninvocations >= 2
    /\ ndispatched = ninvocations
    /\ last.method = "start_zooming_in"
    /\ OneCall(last)

(* C2: the method's outcome is the dispatcher's outcome for its one call: a *)
(* returned value comes back unchanged, a failure surfaces unchanged, and   *)
(* in both cases no second dispatcher call is made.                         *)
C2_OutcomeIsDispatcherOutcome ==
    Invoked => /\ last.outcome = last.reply
               /\ Len(last.calls) = 1

C2_Witness ==
    /\ last.method = "set_recording_encoding"
    /\ last.reply = [kind |-> "raise", value |-> "error"]
    /\ last.outcome = last.reply
    /\ Len(last.calls) = 1

(* The rows of the command table that hold for a get and a set command     *)
(* alike: cmd, action and the keys of param                                 *)
CommonRow(d) ==
    CASE d.cmd = "GetAlarm" ->
            d.action = 1 /\ Nested(d, "Alarm", {"channel", "type"})
                         /\ d.param.Alarm.type = "md"
      [] d.cmd \in {"GetPtzCheckState", "GetPtzPreset", "GetRec"} ->
            d.action = 1 /\ Flat(d, {"channel"})
      [] d.cmd = "PtzCheck" ->
            d.action = 0 /\ Flat(d, {"channel"})
      [] d.cmd = "PtzCtrl" ->
            /\ d.action = 0
            /\ {"channel", "op"} \subseteq DOMAIN d.param
            /\ DOMAIN d.param \subseteq {"channel", "op", "speed", "id"}
      [] d.cmd = "SetPtzPreset" ->
            d.action = 0 /\ Nested(d, "PtzPreset", {"channel", "enable", "id", "name"})
      [] d.cmd = "SetEnc" ->
            d.action = 0 /\ Nested(d, "Enc", {"audio", "channel", "mainStream", "subStream"})
      [] d.cmd = "SetRecV20" ->
            d.action = 0 /\ Nested(d, "Rec", {"enable"})
      [] d.cmd \in {"GetZoomFocus", "GetAutoFocus"} ->
            d.action = 0 /\ Flat(d, {"channel"})
      [] d.cmd = "SetAutoFocus" ->
            d.action = 0 /\ Nested(d, "AutoFocus", {"channel", "disable"})
      [] d.cmd = "StartZoomFocus" ->
            d.action = 0 /\ Nested(d, "ZoomFocus", {"channel", "op", "pos"})
      [] OTHER -> FALSE

(* GetEnc and GetRecV20 as the table words them: with the Enc and Rec keys  *)
(* of their set counterparts                                                *)
RowAsWritten(d) ==
    CASE d.cmd = "GetEnc" ->
            /\ d.action = 1
            /\ "Enc" \in DOMAIN d.param
            /\ {"audio", "mainStream", "subStream"} \subseteq DOMAIN d.param.Enc
      [] d.cmd = "GetRecV20" ->
            /\ d.action = 0
            /\ "Rec" \in DOMAIN d.param
            /\ "enable" \in DOMAIN d.param.Rec
      [] OTHER -> CommonRow(d)

(* GetEnc and GetRecV20 as queries: the channel and nothing else *)
RowAsSent(d) ==
    CASE d.cmd = "GetEnc" -> d.action = 1 /\ Flat(d, {"channel"})
      [] d.cmd = "GetRecV20" -> d.action = 0 /\ Flat(d, {"channel"})
      [] OTHER -> CommonRow(d)

(* C3 as stated: every descriptor matches its row of the table, GetEnc      *)
(* carrying Enc.{audio,mainStream,subStream} and GetRecV20 carrying         *)
(* Rec.enable like SetEnc and SetRecV20.                                    *)
C3_TableAsWritten ==
    Invoked => AllSent(last, RowAsWritten)

(* C3 amended: every descriptor matches its row of the table, where the Enc *)
(* object belongs to SetEnc only and Rec.enable to SetRecV20 only; GetEnc   *)
(* (action 1) and GetRecV20 (action 0) carry the channel alone.             *)
C3_Table ==
    Invoked => OneCall(last) /\ AllSent(last, RowAsSent)

C3_Witness ==
    /\ last.method = "get_recording_encoding"
    /\ OneCall(last)
    /\ last.calls[1].body[1] = [cmd |-> "GetEnc", action |-> 1,
                                param |-> [channel |-> 1]]

(* A channel directly under param, or inside the single object under param *)
HasChannel(d) ==
    \/ "channel" \in DOMAIN d.param
    \/ /\ Cardinality(DOMAIN d.param) = 1
       /\ \A k \in DOMAIN d.param : "channel" \in DOMAIN d.param[k]

(* C4 as stated: every dispatched descriptor carries a channel. *)
C4_ChannelAlways ==
    Invoked => AllSent(last, HasChannel)

(* C4 amended: every dispatched descriptor carries a channel, except the    *)
(* SetRecV20 descriptor of set_recording_advanced_v20_enable, whose param   *)
(* is {Rec: {enable}} and names no channel.                                 *)
C4_ChannelUnlessSetRecV20 ==
    Invoked =>
        /\ OneCall(last)
        /\ AllSent(last, LAMBDA d : d.cmd # "SetRecV20" => HasChannel(d))
        /\ AllSent(last, LAMBDA d : d.cmd = "SetRecV20" =>
                            /\ last.method = "set_recording_advanced_v20_enable"
                            /\ ~HasChannel(d))
        /\ last.method = "set_recording_advanced_v20_enable" =>
               last.calls[1].body[1].cmd = "SetRecV20"

C4_Witness ==
    /\ last.method = "get_alarm_motion"
    /\ OneCall(last)
    /\ last.calls[1].body[1].param.Alarm.channel = 1
    /\ HasChannel(last.calls[1].body[1])

(* The get_* methods that dispatch action 0 *)
GetWithAction0 == {"get_recording_advanced_v20", "get_zoom_focus", "get_auto_focus"}

(* C5 as stated: action is 1 for every get_* method and 0 for every other   *)
(* method.                                                                  *)
C5_GetIs1SetIs0 ==
    Invoked => AllSent(last, LAMBDA d :
                   d.action = IF last.method \in GetMethods THEN 1 ELSE 0)

(* C5 amended: action is always 0 or 1; every set/control/move/start/stop   *)
(* method dispatches 0; a get_* method dispatches 1, except                 *)
(* get_recording_advanced_v20, get_zoom_focus and get_auto_focus, which     *)
(* dispatch 0.                                                              *)
C5_Action ==
    Invoked =>
        /\ OneCall(last)
        /\ AllSent(last, LAMBDA d :
               /\ d.action \in {0, 1}
               /\ d.action = IF last.method \in GetMethods \ GetWithAction0
                             THEN 1 ELSE 0)

C5_Witness ==
    /\ last.method = "get_zoom_focus"
    /\ OneCall(last)
    /\ last.calls[1].body[1].action = 0
    /\ ninvocations >= 2

(* C6: go_to_preset(speed, index, channel) with an index dispatches exactly *)
(* [{cmd PtzCtrl, action 0, param {channel, op ToPos, speed, id = index}}]; *)
(* a PtzCtrl param holds an id only when an index was supplied, and the     *)
(* eight moves and auto_movement send exactly the keys channel, op, speed.  *)
C6_GoToPreset ==
    /\ (last.method = "go_to_preset" /\ last.args.index # None) =>
           /\ Len(last.calls) = 1
           /\ last.calls[1].body =
                  << [cmd |-> "PtzCtrl", action |-> 0,
                      param |-> [channel |-> last.args.channel, op |-> "ToPos",
                                 speed |-> last.args.speed,
                                 id |-> last.args.index[1]]] >>
    /\ Invoked => AllSent(last, LAMBDA d :
           (d.cmd = "PtzCtrl" /\ "id" \in DOMAIN d.param) =>
               (last.method = "go_to_preset" /\ last.args.index # None))
    /\ last.method \in MoveMethods =>
           /\ OneCall(last)
           /\ last.calls[1].body[1].cmd = "PtzCtrl"
           /\ DOMAIN last.calls[1].body[1].param = {"channel", "op", "speed"}

C6_Witness ==
    /\ last.method = "go_to_preset"
    /\ last.args = [channel |-> 0, speed |-> 60, index |-> Some(1)]
    /\ Len(last.calls) = 1
    /\ last.calls[1].body = << [cmd |-> "PtzCtrl", action |-> 0,
                                param |-> [channel |-> 0, op |-> "ToPos",
                                           speed |-> 60, id |-> 1]] >>

(* The body add_preset and remove_preset dispatch for the arguments a *)
AddBody(a) == add_preset(a.preset, a.name, a.channel, NoReply).calls[1].body
RemoveBody(a) == remove_preset(a.preset, a.name, a.channel, NoReply).calls[1].body

(* C7: add_preset dispatches SetPtzPreset with PtzPreset.enable = 1, id =   *)
(* preset, name = name; remove_preset with the same arguments dispatches    *)
(* the same body except that PtzPreset.enable is 0.                         *)
C7_AddRemoveDifferInEnable ==
    /\ last.method = "add_preset" =>
           /\ OneCall(last)
           /\ last.calls[1].body =
                  << [cmd |-> "SetPtzPreset", action |-> 0,
                      param |-> [PtzPreset |-> [channel |-> last.args.channel,
                                                enable |-> 1,
                                                id |-> last.args.preset,
                                                name |-> last.args.name]]] >>
           /\ RemoveBody(last.args) =
                  [last.calls[1].body EXCEPT ![1].param.PtzPreset.enable = 0]
    /\ last.method = "remove_preset" =>
           /\ OneCall(last)
           /\ last.calls[1].body[1].param.PtzPreset.enable = 0
           /\ AddBody(last.args) =
                  [last.calls[1].body EXCEPT ![1].param.PtzPreset.enable = 1]

C7_Witness ==
    /\ last.method = "remove_preset"
    /\ last.args = [channel |-> 0, preset |-> 2, name |-> "pos2"]
    /\ OneCall(last)
    /\ last.calls[1].body[1].param.PtzPreset =
           [channel |-> 0, enable |-> 0, id |-> 2, name |-> "pos2"]

(* C8: set_auto_focus(disable, channel) dispatches SetAutoFocus with        *)
(* AutoFocus.disable = 1 for True and 0 for False, and the channel as given. *)
C8_AutoFocusDisable ==
    last.method = "set_auto_focus" =>
        /\ OneCall(last)
        /\ LET d == last.calls[1].body[1]
           IN  /\ d.cmd = "SetAutoFocus"
               /\ DOMAIN d.param = {"AutoFocus"}
               /\ d.param.AutoFocus.disable \in {0, 1}
               /\ (last.args.disable = TRUE) => d.param.AutoFocus.disable = 1
               /\ (last.args.disable = FALSE) => d.param.AutoFocus.disable = 0
               /\ d.param.AutoFocus.channel = last.args.channel

C8_Witness ==
    /\ last.method = "set_auto_focus"
    /\ last.args = [channel |-> 1, disable |-> TRUE]
    /\ OneCall(last)
    /\ last.calls[1].body[1].param.AutoFocus = [channel |-> 1, disable |-> 1]

IsStop(d) == d.cmd = "PtzCtrl" /\ d.param.op = "Stop"

(* What one invocation l, taking the motion flags from m to n, may do *)
CallerDrivenStop(m, n, l) ==
    /\ AllSent(l, LAMBDA d : IsStop(d) => l.method \in StopMethods)
    /\ \A c \in Channels :
           (m[c] /\ ~n[c]) => (l.method \in StopMethods /\ l.args.channel = c)
    /\ l.method \in StopMethods =>
           /\ Len(l.calls) = 1
           /\ l.calls[1].body = << [cmd |-> "PtzCtrl", action |-> 0,
                                    param |-> [channel |-> l.args.channel,
                                               op |-> "Stop"]] >>
           /\ ~n[l.args.channel]
    /\ l.method \in StartMethods =>
           /\ AllSent(l, LAMBDA d : ~IsStop(d))
           /\ n[l.args.channel]

(* C9: in every step, a Stop is dispatched only by stop_ptz, stop_zooming   *)
(* or stop_focusing; a motion started on a channel stays commanded until    *)
(* one of them is invoked on that channel; the three dispatch the same      *)
(* descriptor {PtzCtrl, 0, {channel, op Stop}} without a speed; a start     *)
(* method never dispatches a Stop.                                          *)
C9_StopOnlyByCaller ==
    [][CallerDrivenStop(moving, moving', last')]_vars

C9_Witness ==
    /\ ninvocations >= 3
    /\ last.method = "stop_focusing"
    /\ last.args.channel = 1
    /\ moving[0]
    /\ ~moving[1]

(* C10: in every dispatcher call the command_name equals the cmd of the one *)
(* descriptor of the body.                                                  *)
C10_CommandNameIsCmd ==
    Invoked => \A i \in 1..Len(last.calls) :
                   last.calls[i].command_name = last.calls[i].body[1].cmd

=============================================================================
